---------------------------- MODULE Spec2Model ----------------------------
(***************************************************************************)
(* Model of the AWS CDK application in src/app.py and src/stacks/*.py:     *)
(* the settings lookup (stacks/settings.py), the ten stacks with their     *)
(* load / deploy / export phases, the named exports and imports that pass  *)
(* identifiers between stacks, and the orchestration script of app.py.     *)
(***************************************************************************)
EXTENDS Integers, Sequences, FiniteSets, TLC

VARIABLES
    context,      \* app.node.try_get_context values: profile, application, database, network, environment
    environ,      \* os.environ: CDK_DEFAULT_ACCOUNT, CDK_DEFAULT_REGION
    snapshot,     \* what the RDS service answered to describe_db_snapshots
    pc,           \* position in the script of app.py
    status,       \* "running", "failed" (an exception left the script) or "done"
    error,        \* the exception that ended the run
    constructed,  \* the stacks constructed so far, in construction order
    started,      \* per stack and phase, how many times the phase was started
    completed,    \* per stack, the phases that returned normally
    attrs,        \* per stack, the instance attributes the phases set
    resources,    \* per stack, the constructs declared in it, in order
    imports,      \* per stack, the names read with Fn.import_value
    exports,      \* per stack, the export_name of every CfnOutput
    lookups,      \* every Settings lookup performed so far, with its outcome
    deps,         \* add_dependency declarations: <<a, b>> is "a depends on b"
    synthesized,  \* app.synth() was called
    call          \* the last direct call of Settings.get (specification SpecSettings)

runVars == <<context, environ, snapshot, pc, status, error, constructed, started,
             completed, attrs, resources, imports, exports, lookups, deps, synthesized>>
vars == <<context, environ, snapshot, pc, status, error, constructed, started,
          completed, attrs, resources, imports, exports, lookups, deps, synthesized, call>>

-----------------------------------------------------------------------------
(* Python values.  Every value is a record of the same shape, so that any  *)
(* two values can be compared.                                             *)

None == [type |-> "NoneType", s |-> "", n |-> 0, l |-> <<>>]
PyStr(x) == [type |-> "str", s |-> x, n |-> 0, l |-> <<>>]
PyInt(x) == [type |-> "int", s |-> "", n |-> x, l |-> <<>>]
PyBool(b) == [type |-> "bool", s |-> "", n |-> IF b THEN 1 ELSE 0, l |-> <<>>]
PyList(q) == [type |-> "list", s |-> "", n |-> 0, l |-> q]
InstanceType(class, size) == [type |-> "InstanceType", s |-> class, n |-> 0, l |-> <<size>>]
BoundMethod(name) == [type |-> "method", s |-> name, n |-> 0, l |-> <<>>]

\* Python truth value of a value ("if not x", "if x").
Truthy(v) ==
    CASE v.type = "NoneType" -> FALSE
      [] v.type = "str" -> v.s # ""
      [] v.type \in {"int", "bool"} -> v.n # 0
      [] v.type = "list" -> Len(v.l) > 0
      [] OTHER -> TRUE

-----------------------------------------------------------------------------
(* stacks/settings.py: the settings tables.  A class is the function from  *)
(* the attributes declared in its body to their values.                    *)

VpcCidrSettings ==
    [mainnet |-> PyStr("10.0.0.0/16"), testnet |-> PyStr("10.1.0.0/16"), devnet |-> PyStr("10.11.0.0/16")]

SharedCacheDatabaseSettings ==
    [mainnet |-> PyBool(TRUE), testnet |-> PyBool(TRUE), devnet |-> PyBool(FALSE)]

PublicSubnetCidrSettings ==
    [mainnet |-> PyList(<<"10.0.0.0/19", "10.0.32.0/19", "10.0.64.0/19">>),
     testnet |-> PyList(<<"10.1.0.0/19", "10.1.32.0/19">>),
     devnet |-> PyList(<<"10.11.0.0/19", "10.11.32.0/19">>)]

PrivateSubnetCidrSettings ==
    [mainnet |-> PyList(<<"10.0.96.0/19", "10.0.128.0/19", "10.0.160.0/19">>),
     testnet |-> PyList(<<"10.1.64.0/19", "10.1.96.0/19">>),
     devnet |-> PyList(<<"10.11.64.0/19", "10.11.96.0/19">>)]

AvailabilityZonesSettings ==
    [mainnet |-> PyList(<<"a", "b", "c">>), testnet |-> PyList(<<"a", "b">>), devnet |-> PyList(<<"a", "b">>)]

CacheInstanceTypeSettings ==
    [mainnet |-> PyStr("cache.m6g.large"), testnet |-> PyStr("cache.m6g.large"), devnet |-> PyStr("cache.m6g.large")]

SearchVolumeSizeSettings ==
    [mainnet |-> PyInt(100), testnet |-> PyInt(50), devnet |-> PyInt(50)]

SearchNodeTypeSettings ==
    [mainnet |-> PyStr("m5.large.search"), testnet |-> PyStr("m5.large.search"), devnet |-> PyStr("m5.large.search")]

SearchMasterNodeTypeSettings ==
    [mainnet |-> PyStr("m5.large.search"), testnet |-> PyStr("m5.large.search"), devnet |-> PyStr("m5.large.search")]

SearchNodeCountSettings ==
    [mainnet |-> PyInt(3), testnet |-> PyInt(3), devnet |-> PyInt(3)]

SearchMasterNodeCountSettings ==
    [mainnet |-> PyInt(3), testnet |-> PyInt(3), devnet |-> PyInt(3)]

DatabaseNameSettings ==
    [proddb |-> PyStr("dcdata"), demodb |-> PyStr("dcdata"), default |-> PyStr("dcdata")]

DatabaseUsernameSettings ==
    [proddb |-> PyStr("dcdata"), demodb |-> PyStr("dcdata"), default |-> PyStr("dcdata")]

DatabaseEncryptionSettings ==
    [proddb |-> PyBool(TRUE), testnet |-> PyBool(TRUE), default |-> PyBool(FALSE)]

DatabaseDeletionProtectionSettings ==
    [proddb |-> PyBool(TRUE), demodb |-> PyBool(TRUE), default |-> PyBool(FALSE)]

MinNodesSettings ==
    [proddb |-> PyInt(4), demodb |-> PyInt(2), default |-> PyInt(1)]

MaxNodesSettings ==
    [proddb |-> PyInt(2), demodb |-> PyInt(1), default |-> PyInt(1)]

DatabaseStorageSize ==
    [proddb |-> PyInt(100), demodb |-> PyInt(50), default |-> PyInt(30)]

ServerAmiSettings ==
    [production |-> PyStr("ami-075200050e2c8899b"), default |-> PyStr("ami-075200050e2c8899b")]

BeanstalkServerAmiSettings ==
    [production |-> PyStr("ami-092fb6074c93dbeb3"), default |-> PyStr("ami-092fb6074c93dbeb3")]

ServerKeyPairSettings ==
    [mainnet |-> PyStr("MkpProduction"), testnet |-> PyStr("MkpTesting"), devnet |-> PyStr("MkpDevelopment")]

DatabaseSnapshotName ==
    [mainnet |-> PyStr("latest"), testnet |-> PyStr("latest"), devnet |-> PyStr("latest")]

\* A variant of the rolling-update table in which the policy is on by default.
RollingUpdateEnabledByDefault ==
    [proddb |-> PyBool(TRUE), demodb |-> PyBool(TRUE), default |-> PyBool(TRUE)]

RollingUpdateRollingUpdateEnabledSettings ==
    [proddb |-> PyBool(TRUE), demodb |-> PyBool(TRUE), default |-> PyBool(FALSE)]

RollingUpdateMinInstancesInServiceSettings ==
    [proddb |-> PyInt(1), demodb |-> PyInt(1)]

RollingUpdateMaxBatchSizeSettings ==
    [proddb |-> PyInt(1), demodb |-> PyInt(1)]

BeanstalkStorageSize ==
    [mainnet |-> PyInt(128), testnet |-> PyInt(64), devnet |-> PyInt(32)]

DebugModeSettings ==
    [mainnet |-> PyBool(FALSE), testnet |-> PyBool(TRUE), devnet |-> PyBool(TRUE)]

BeanstalkLoadBalancerSchemeSettings ==
    [mainnet |-> PyStr("public"), testnet |-> PyStr("public"), devnet |-> PyStr("public")]

BeanstalkInstanceTypeSettings ==
    [mainnet |-> InstanceType("STANDARD6_GRAVITON", "LARGE"),
     testnet |-> InstanceType("BURSTABLE3", "MEDIUM"),
     default |-> InstanceType("BURSTABLE3", "MEDIUM")]

DatabaseInstanceTypeSettings ==
    [proddb |-> InstanceType("STANDARD6_GRAVITON", "LARGE"),
     testnet |-> InstanceType("STANDARD3", "MEDIUM"),
     default |-> InstanceType("BURSTABLE4_GRAVITON", "SMALL")]

BastionInstanceTypeSettings ==
    [mainnet |-> InstanceType("STANDARD6_GRAVITON", "SMALL"),
     testnet |-> InstanceType("BURSTABLE4_GRAVITON", "SMALL"),
     default |-> InstanceType("BURSTABLE4_GRAVITON", "SMALL")]

HttpsCertificateSettings ==
    [mainnet |-> PyStr("certificate/83d034f3-ec71-4d6a-840e-a34ccdb052cd"),
     testnet |-> PyStr("certificate/6c014fbb-479c-499d-b976-13b4452582a0"),
     devnet |-> PyStr("certificate/89b1b8e2-926a-4aae-a9b6-42d3f2dbe485")]

\* The settings classes by name.
SettingsClasses ==
    [VpcCidrSettings |-> VpcCidrSettings,
     SharedCacheDatabaseSettings |-> SharedCacheDatabaseSettings,
     PublicSubnetCidrSettings |-> PublicSubnetCidrSettings,
     PrivateSubnetCidrSettings |-> PrivateSubnetCidrSettings,
     AvailabilityZonesSettings |-> AvailabilityZonesSettings,
     CacheInstanceTypeSettings |-> CacheInstanceTypeSettings,
     SearchVolumeSizeSettings |-> SearchVolumeSizeSettings,
     SearchNodeTypeSettings |-> SearchNodeTypeSettings,
     SearchMasterNodeTypeSettings |-> SearchMasterNodeTypeSettings,
     SearchNodeCountSettings |-> SearchNodeCountSettings,
     SearchMasterNodeCountSettings |-> SearchMasterNodeCountSettings,
     DatabaseNameSettings |-> DatabaseNameSettings,
     DatabaseUsernameSettings |-> DatabaseUsernameSettings,
     DatabaseEncryptionSettings |-> DatabaseEncryptionSettings,
     DatabaseDeletionProtectionSettings |-> DatabaseDeletionProtectionSettings,
     MinNodesSettings |-> MinNodesSettings,
     MaxNodesSettings |-> MaxNodesSettings,
     DatabaseStorageSize |-> DatabaseStorageSize,
     ServerAmiSettings |-> ServerAmiSettings,
     BeanstalkServerAmiSettings |-> BeanstalkServerAmiSettings,
     ServerKeyPairSettings |-> ServerKeyPairSettings,
     DatabaseSnapshotName |-> DatabaseSnapshotName,
     RollingUpdateRollingUpdateEnabledSettings |-> RollingUpdateRollingUpdateEnabledSettings,
     RollingUpdateMinInstancesInServiceSettings |-> RollingUpdateMinInstancesInServiceSettings,
     RollingUpdateMaxBatchSizeSettings |-> RollingUpdateMaxBatchSizeSettings,
     BeanstalkStorageSize |-> BeanstalkStorageSize,
     DebugModeSettings |-> DebugModeSettings,
     BeanstalkLoadBalancerSchemeSettings |-> BeanstalkLoadBalancerSchemeSettings,
     BeanstalkInstanceTypeSettings |-> BeanstalkInstanceTypeSettings,
     DatabaseInstanceTypeSettings |-> DatabaseInstanceTypeSettings,
     BastionInstanceTypeSettings |-> BastionInstanceTypeSettings,
     HttpsCertificateSettings |-> HttpsCertificateSettings]

\* The tier keys a settings class declares in its own body.
DeclaredKeys(cls) == DOMAIN SettingsClasses[cls]

\* Attributes every settings class inherits from the parent class Settings:
\* its three classmethods.
InheritedAttrs == {"get", "cycle", "length"}

\* hasattr(cls, name): the class body or anything inherited.
HasAttr(cls, name) == name \in DeclaredKeys(cls) \/ name \in InheritedAttrs

\* getattr(cls, name), for a name hasattr accepts.
GetAttr(cls, name) ==
    IF name \in DeclaredKeys(cls) THEN SettingsClasses[cls][name] ELSE BoundMethod(name)

\* Settings.get: the attribute of that exact name, else "default", else KeyError.
Get(cls, name) ==
    IF HasAttr(cls, name)
    THEN [raised |-> "", value |-> GetAttr(cls, name)]
    ELSE IF HasAttr(cls, "default")
         THEN [raised |-> "", value |-> GetAttr(cls, "default")]
         ELSE [raised |-> "KeyError", value |-> None]

\* Settings.length (and Settings.cycle, which differs only in what it
\* returns): get, then TypeError unless the value is a list.
Length(cls, name) ==
    LET r == Get(cls, name)
    IN  IF r.raised # "" THEN r
        ELSE IF r.value.type # "list" THEN [raised |-> "TypeError", value |-> None]
        ELSE [raised |-> "", value |-> PyInt(Len(r.value.l))]

-----------------------------------------------------------------------------
(* The inputs of a run.                                                    *)

application == context.application
database == context.database
network == context.network
environment == context.environment
profile == context.profile
account == environ.CDK_DEFAULT_ACCOUNT
region == environ.CDK_DEFAULT_REGION

\* os.environ has no entry for the variable.
Unset == [type |-> "unset", s |-> "", n |-> 0, l |-> <<>>]

\* str(index + 1) for the indexes the stacks format into names.
IntStr(i) == <<"0", "1", "2", "3", "4", "5", "6", "7", "8", "9">>[i + 1]

\* "::".join(parts): a name is kept as the sequence of its parts.
Name(parts) == parts

\* str.split("."), for the CIDR strings of the settings tables.
SplitDot(cidr) ==
    CASE cidr = "10.0.0.0/16" -> <<"10", "0", "0", "0/16">>
      [] cidr = "10.1.0.0/16" -> <<"10", "1", "0", "0/16">>
      [] cidr = "10.11.0.0/16" -> <<"10", "11", "0", "0/16">>
      [] cidr = "10.0.0.0/19" -> <<"10", "0", "0", "0/19">>
      [] cidr = "10.0.32.0/19" -> <<"10", "0", "32", "0/19">>
      [] cidr = "10.0.64.0/19" -> <<"10", "0", "64", "0/19">>
      [] cidr = "10.0.96.0/19" -> <<"10", "0", "96", "0/19">>
      [] cidr = "10.0.128.0/19" -> <<"10", "0", "128", "0/19">>
      [] cidr = "10.0.160.0/19" -> <<"10", "0", "160", "0/19">>
      [] cidr = "10.1.0.0/19" -> <<"10", "1", "0", "0/19">>
      [] cidr = "10.1.32.0/19" -> <<"10", "1", "32", "0/19">>
      [] cidr = "10.1.64.0/19" -> <<"10", "1", "64", "0/19">>
      [] cidr = "10.1.96.0/19" -> <<"10", "1", "96", "0/19">>
      [] cidr = "10.11.0.0/19" -> <<"10", "11", "0", "0/19">>
      [] cidr = "10.11.32.0/19" -> <<"10", "11", "32", "0/19">>
      [] cidr = "10.11.64.0/19" -> <<"10", "11", "64", "0/19">>
      [] cidr = "10.11.96.0/19" -> <<"10", "11", "96", "0/19">>
      [] OTHER -> <<cidr>>

\* seq[:k]
Prefix(seq, k) == SubSeq(seq, 1, IF k < Len(seq) THEN k ELSE Len(seq))

-----------------------------------------------------------------------------
(* A phase of a stack is straight-line code that may raise.  It is written *)
(* as the sequence of its effects, in program order; Run carries them out  *)
(* up to the first one that raises.                                        *)

NoError == [type |-> "", msg |-> ""]

Step(op, x, y, q, ok) == [op |-> op, x |-> x, y |-> y, q |-> q, ok |-> ok]
\* Settings.get(key) on class cls
Lookup(cls, key) == Step("get", cls, key, <<>>, TRUE)
\* Settings.cycle(key) / Settings.length(key), or len() / iteration of get(key)
LookupList(cls, key) == Step("list", cls, key, <<>>, TRUE)
\* if not <ok>: raise etype(msg)
Require(ok, etype, msg) == Step("require", etype, msg, <<>>, ok)
\* if not self.<attr>: raise etype(msg)
NeedAttr(attr, etype, msg) == Step("needattr", etype, msg, <<attr>>, TRUE)
\* self.<attr>.<member>: AttributeError when self.<attr> is still None
UseAttr(attr) == Step("needattr", "AttributeError", "'NoneType' object has no attribute", <<attr>>, TRUE)
\* A variant of the check on a list that never raises.
NeedItemsUnchecked(list, etype, msg) == Step("require", etype, msg, <<list>>, TRUE)

\* if not self.<list>: raise etype(msg)
NeedItems(list, etype, msg) == Step("needitems", etype, msg, <<list>>, TRUE)
\* a construct of the provider library is declared in the stack
Declare(type, id) == Step("declare", type, "", id, TRUE)
\* self.<attr> = <a value that is not None>
SetAttr(attr) == Step("setattr", attr, "", <<>>, TRUE)
\* self.<list>.append(...) / self.<list> = [... n items]
Push(list) == Step("append", list, "", <<>>, TRUE)
\* self.<list> = []
Clear(list) == Step("clear", list, "", <<>>, TRUE)
\* Fn.import_value(name)
Import(name) == Step("import", "", "", name, TRUE)
\* CfnOutput(..., export_name=name)
Export(name) == Step("export", "", "", name, TRUE)

RECURSIVE Concat(_)
Concat(seqs) == IF seqs = <<>> THEN <<>> ELSE Head(seqs) \o Concat(Tail(seqs))

\* for index in range(n): body(index + 1), given as [i \in 1..n |-> body]
ForEach(bodies) == Concat(bodies)

\* The attributes of a stack object after BaseStack / NetworkProtectedStack
\* construction: nothing imported, nothing created.
NewAttrs == [set |-> {}, count |-> [k \in {"_public_subnets", "_private_subnets", "_ec2", "_eip", "_nat_gateways"} |-> 0]]

NewOutcome(a) == [err |-> NoError, res |-> <<>>, lk |-> {}, imp |-> {}, exp |-> {}, attr |-> a]

LookupOutcome(st) == IF st.op = "get" THEN Get(st.x, st.y) ELSE Length(st.x, st.y)

\* One effect applied to the outcome so far.
Apply(st, acc) ==
    CASE st.op \in {"get", "list"} ->
            LET r == LookupOutcome(st)
                rec == [cls |-> st.x, key |-> st.y, raised |-> r.raised]
            IN  [acc EXCEPT !.lk = @ \cup {rec},
                            !.err = IF r.raised = "" THEN NoError
                                    ELSE [type |-> r.raised, msg |-> st.x]]
      [] st.op = "require" ->
            IF st.ok THEN acc ELSE [acc EXCEPT !.err = [type |-> st.x, msg |-> st.y]]
      [] st.op = "needattr" ->
            IF st.q[1] \in acc.attr.set THEN acc
            ELSE [acc EXCEPT !.err = [type |-> st.x, msg |-> st.y]]
      [] st.op = "needitems" ->
            IF acc.attr.count[st.q[1]] > 0 THEN acc
            ELSE [acc EXCEPT !.err = [type |-> st.x, msg |-> st.y]]
      [] st.op = "declare" -> [acc EXCEPT !.res = Append(@, <<st.x>> \o st.q)]
      [] st.op = "setattr" -> [acc EXCEPT !.attr.set = @ \cup {st.x}]
      [] st.op = "append" -> [acc EXCEPT !.attr.count[st.x] = @ + 1]
      [] st.op = "clear" -> [acc EXCEPT !.attr.count[st.x] = 0]
      [] st.op = "import" -> [acc EXCEPT !.imp = @ \cup {st.q}]
      [] st.op = "export" -> [acc EXCEPT !.exp = @ \cup {st.q}]

RECURSIVE RunFrom(_, _, _)
RunFrom(steps, i, acc) ==
    IF i > Len(steps) \/ acc.err # NoError THEN acc
    ELSE RunFrom(steps, i + 1, Apply(steps[i], acc))

\* The outcome of a phase on a stack whose attributes are a.
Run(steps, a) == RunFrom(steps, 1, NewOutcome(a))

-----------------------------------------------------------------------------
(* The stacks.  app, net, db and env are the strings formatted into names. *)

app == application.s
net == network.s
db == database.s
env == environment.s

\* len() of a settings list, 0 when the lookup raises (the loop is then never reached)
ListLen(cls, key) == Len(Get(cls, key).value.l)

\* stacks/base.py: BaseStack.load, deploy and export do nothing.
BaseStackPhase == <<>>

\* stacks/protected.py: NetworkProtectedStack._import_vpc
ImportVpc ==
    <<Require(Truthy(network), "AttributeError", "Network not loaded"),
      Import(Name(<<app, net, "vpc", "id">>)),
      Lookup("VpcCidrSettings", net),
      Lookup("AvailabilityZonesSettings", net),
      LookupList("PublicSubnetCidrSettings", net)>>
    \o ForEach([i \in 1..(ListLen("PublicSubnetCidrSettings", net)) |->
               <<Import(Name(<<app, net, "subnet", "public", IntStr(i), "id">>))>>])
    \o <<LookupList("PrivateSubnetCidrSettings", net)>>
    \o ForEach([i \in 1..(ListLen("PrivateSubnetCidrSettings", net)) |->
               <<Import(Name(<<app, net, "subnet", "private", IntStr(i), "id">>))>>])
    \o <<SetAttr("_vpc")>>

\* stacks/protected.py: NetworkProtectedStack._import_public_subnets
ImportPublicSubnets ==
    <<Require(Truthy(region), "AttributeError", "Region is empty!"),
      Require(Truthy(network), "AttributeError", "Network is empty!"),
      Require(Truthy(application), "AttributeError", "Application is empty!"),
      LookupList("AvailabilityZonesSettings", net),
      LookupList("PublicSubnetCidrSettings", net),
      Clear("_public_subnets")>>
    \o ForEach([i \in 1..(ListLen("PublicSubnetCidrSettings", net)) |->
               <<Import(Name(<<app, net, "subnet", "public", IntStr(i), "id">>)),
                 Push("_public_subnets")>>])

\* stacks/protected.py: NetworkProtectedStack._import_private_subnets
ImportPrivateSubnets ==
    <<LookupList("AvailabilityZonesSettings", net),
      LookupList("PrivateSubnetCidrSettings", net),
      Clear("_private_subnets")>>
    \o ForEach([i \in 1..(ListLen("PrivateSubnetCidrSettings", net)) |->
               <<Import(Name(<<app, net, "subnet", "private", IntStr(i), "id">>)),
                 Push("_private_subnets")>>])

\* stacks/protected.py: NetworkProtectedStack.load
NetworkProtectedStackLoad ==
    <<Require(Truthy(application), "AttributeError", "Unknown application name!"),
      Require(Truthy(network), "AttributeError", "Unknown network name!"),
      Require(Truthy(region), "AttributeError", "Unknown region name!")>>
    \o ImportVpc \o ImportPublicSubnets \o ImportPrivateSubnets

\* stacks/registry.py: RegistryStack.deploy
\* (_create_repository, _create_bucket, _upload_json with _get_template)
RegistryStackDeploy ==
    <<Require(Truthy(application), "AttributeError", "Unknown application name!"),
      Declare("ecr.Repository", <<app>>),
      SetAttr("_repository"),
      Require(Truthy(account), "AttributeError", "Unknown account name!"),
      Declare("s3.Bucket", <<app, account.s, "deployments-bucket">>),
      SetAttr("_bucket"),
      NeedAttr("_bucket", "AttributeError", "Bucket not created!"),
      Require(Truthy(environment), "AttributeError", "Missing environment name!"),
      Require(Truthy(application), "AttributeError", "Missing application name!"),
      Declare("s3deploy.BucketDeployment", <<"DeployWebsite">>)>>

\* stacks/registry.py: RegistryStack.export
RegistryStackExport ==
    <<UseAttr("_bucket"),
      Export(Name(<<app, "deployments", "bucket", "name">>)),
      UseAttr("_repository"),
      Export(Name(<<app, "ecr", "uri">>)),
      Export(Name(<<app, "ecr", "name">>))>>

\* A variant of the comparison that looks at the first dotted part only.
CidrMatchesFirstPart(cidr_block, vpc_cidr) ==
    Prefix(SplitDot(cidr_block), 1) = Prefix(SplitDot(vpc_cidr), 1)

\* The VPC CIDR and a subnet CIDR agree on their first two dotted parts.
CidrMatches(cidr_block, vpc_cidr) ==
    Prefix(SplitDot(cidr_block), 2) = Prefix(SplitDot(vpc_cidr), 2)

\* stacks/network.py: NetworkStack._create_vpc
CreateVpc ==
    <<Lookup("VpcCidrSettings", net),
      LookupList("AvailabilityZonesSettings", net),
      Declare("ec2.Vpc", <<app, net, "vpc">>),
      SetAttr("_vpc")>>

\* stacks/network.py: NetworkStack._create_public_subnets / _create_private_subnets,
\* where vpc_cidr and cidr_blocks are what the two lookups returned.
CreateSubnets(cls, vpc_cidr, cidr_blocks, kind, list) ==
    <<Lookup("VpcCidrSettings", net),
      LookupList(cls, net),
      LookupList("AvailabilityZonesSettings", net)>>
    \o ForEach([i \in 1..Len(cidr_blocks) |->
               <<Require(CidrMatches(cidr_blocks[i], vpc_cidr),
                         "RuntimeError", "The VPC CIDR and the subnet CIDR don't mwatch!"),
                 UseAttr("_vpc"),
                 Declare("ec2.Subnet", <<app, net, kind, "subnet", IntStr(i)>>),
                 Push(list)>>])

\* stacks/network.py: NetworkStack._create_internet_gateway
\* (one attachment per subnet in self._public_subnets)
CreateInternetGateway(public) ==
    <<Declare("ec2.CfnInternetGateway", <<app, net, "internet-gateway">>),
      SetAttr("_igw")>>
    \o ForEach([i \in 1..public |->
               <<Declare("ec2.CfnVPCGatewayAttachment", <<app, net, "igw-attachment", IntStr(i)>>)>>])

\* stacks/network.py: NetworkStack._create_eip, one per private CIDR block
NetworkCreateEip(private) ==
    <<LookupList("PrivateSubnetCidrSettings", net)>>
    \o ForEach([i \in 1..private |->
               <<Declare("ec2.CfnEIP", <<app, net, "nat-ip", IntStr(i)>>), Push("_eip")>>])

\* stacks/network.py: NetworkStack._create_nat_gateways
\* (self._eip[index] and self._public_subnets[index] for each private subnet)
CreateNatGateways(public, private) ==
    <<NeedItems("_eip", "AttributeError", "AWS Elastic IPs not created!")>>
    \o ForEach([i \in 1..private |->
               <<Require(i <= public, "IndexError", "list index out of range"),
                 Declare("ec2.CfnNatGateway", <<app, net, "nat", IntStr(i)>>),
                 Push("_nat_gateways")>>])

\* stacks/network.py: NetworkStack._create_vpc_endpoints
CreateVpcEndpoints ==
    <<NeedAttr("_vpc", "AttributeError", "VPC not created!"),
      NeedItems("_private_subnets", "AttributeError", "Private subnets not created!"),
      Declare("ec2.InterfaceVpcEndpoint", <<app, net, "eb-health-vpc-endpoint">>),
      Declare("ec2.InterfaceVpcEndpoint", <<app, net, "eb-vpc-endpoint">>),
      Declare("ec2.InterfaceVpcEndpoint", <<app, net, "s3-vpc-endpoint">>),
      Declare("ec2.InterfaceVpcEndpoint", <<app, net, "redis-vpc-endpoint">>)>>

\* stacks/network.py: NetworkStack.deploy, where vpc_cidr, public_blocks and
\* private_blocks are the entries of the settings tables for the network.
NetworkStackDeployWith(vpc_cidr, public_blocks, private_blocks) ==
    <<Require(Truthy(application), "AttributeError", "Unknown application name!"),
      Require(Truthy(network), "AttributeError", "Unknown network name!"),
      Require(Truthy(region), "AttributeError", "Unknown region name!")>>
    \o CreateVpc
    \o CreateSubnets("PublicSubnetCidrSettings", vpc_cidr, public_blocks, "public", "_public_subnets")
    \o CreateSubnets("PrivateSubnetCidrSettings", vpc_cidr, private_blocks, "private", "_private_subnets")
    \o CreateInternetGateway(Len(public_blocks))
    \o NetworkCreateEip(Len(private_blocks))
    \o CreateNatGateways(Len(public_blocks), Len(private_blocks))
    \o CreateVpcEndpoints

\* stacks/network.py: NetworkStack.deploy
NetworkStackDeploy ==
    NetworkStackDeployWith(Get("VpcCidrSettings", net).value.s,
                           Get("PublicSubnetCidrSettings", net).value.l,
                           Get("PrivateSubnetCidrSettings", net).value.l)

\* A variant of the export index that numbers the subnets from zero.
SubnetExportIndexFromZero(i) == IntStr(i - 1)

\* The 1-based index formatted into the i-th subnet export.
SubnetExportIndex(i) == IntStr(i)

\* stacks/network.py: NetworkStack.export, for a stack with the given numbers
\* of public and private subnets in self._public_subnets / self._private_subnets
NetworkStackExport(a) ==
    <<UseAttr("_vpc"),
      Export(Name(<<app, net, "vpc", "id">>))>>
    \o ForEach([i \in 1..(a.count["_public_subnets"]) |->
               <<Export(Name(<<app, net, "subnet", "public", SubnetExportIndex(i), "id">>))>>])
    \o ForEach([i \in 1..(a.count["_private_subnets"]) |->
               <<Export(Name(<<app, net, "subnet", "private", SubnetExportIndex(i), "id">>))>>])

\* A security group with its ingress rules: <<peer, port>> each.
SecurityGroup(id, rules) ==
    <<Declare("ec2.SecurityGroup", id)>>
    \o ForEach([i \in 1..(Len(rules)) |->
               <<Declare("ingress", id \o rules[i])>>])

\* stacks/security.py: SecurityStack.deploy
\* (_create_elb_role, _create_bastion_role, _create_ec2_role, _create_ec2_profile,
\*  _create_os_role, _create_ec2_sg, _create_elb_sg)
SecurityStackDeploy ==
    <<Require(Truthy(application), "AttributeError", "Unknown application name!"),
      Require(Truthy(network), "AttributeError", "Unknown network name!"),
      Declare("iam.Role", <<app, net, "elb-iam-role">>),
      SetAttr("_elb_role"),
      Declare("iam.Role", <<app, net, "bastion-iam-role">>),
      SetAttr("_bastion_role"),
      Declare("iam.Role", <<app, net, "ec2-iam-role">>),
      SetAttr("_ec2_role"),
      UseAttr("_ec2_role"),
      Declare("iam.CfnInstanceProfile", <<app, net, "ec2-instance-profile">>),
      SetAttr("_ec2_profile"),
      Declare("iam.CfnServiceLinkedRole", <<app, net, "os-role">>),
      SetAttr("_os_role")>>
    \o SecurityGroup(<<app, net, "ec2-security-group">>, <<<<"any_ipv4", "80">>, <<"any_ipv4", "22">>>>)
    \o <<SetAttr("_ec2_sg")>>
    \o SecurityGroup(<<app, net, "elb-security-group">>, <<<<"any_ipv4", "80">>, <<"any_ipv4", "443">>>>)
    \o <<SetAttr("_elb_sg")>>

\* stacks/security.py: SecurityStack.export
SecurityStackExport ==
    <<UseAttr("_ec2_role"),
      Export(Name(<<app, net, "application", "ec2", "role", "name">>)),
      UseAttr("_bastion_role"),
      Export(Name(<<app, net, "application", "bastion", "role", "name">>)),
      UseAttr("_ec2_profile"),
      Export(Name(<<app, net, "application", "ec2", "profile", "name">>)),
      UseAttr("_elb_role"),
      Export(Name(<<app, net, "application", "elb", "role", "name">>)),
      UseAttr("_ec2_sg"),
      Export(Name(<<app, net, "application", "ec2", "sg", "id">>)),
      UseAttr("_elb_sg"),
      Export(Name(<<app, net, "application", "elb", "sg", "id">>))>>

\* A variant of the limit that allows three bastion servers.
MaxThreeInstances == 2 + 1

\* stacks/bastion.py: BastionStack.MAX_EC2_INSTANCES
MAX_EC2_INSTANCES == 2

\* stacks/bastion.py: BastionStack.load
BastionStackLoad ==
    NetworkProtectedStackLoad
    \o <<Import(Name(<<app, net, "application", "ec2", "role", "name">>)),
         SetAttr("_role")>>

\* stacks/bastion.py: BastionStack.deploy (_create_sg, _create_ec2, _create_eip),
\* for a stack whose load imported a.count["_public_subnets"] public subnets
BastionStackDeploy(a) ==
    <<Require(Truthy(application), "AttributeError", "Unknown application name!"),
      Require(Truthy(network), "AttributeError", "Unknown network name!"),
      Require(Truthy(region), "AttributeError", "Unknown region name!"),
      NeedItems("_public_subnets", "AttributeError", "Public subnets not found!")>>
    \o SecurityGroup(<<app, net, "bastion-security-group">>, <<<<"any_ipv4", "22">>>>)
    \o <<SetAttr("_sg"),
         NeedAttr("_sg", "RuntimeError", "The security group for the bastion server has not been created!"),
         NeedAttr("_role", "RuntimeError", "EC2 role not found!"),
         LookupList("AvailabilityZonesSettings", net)>>
    \o ForEach([i \in 1..(IF MAX_EC2_INSTANCES < a.count["_public_subnets"]
                         THEN MAX_EC2_INSTANCES
                         ELSE a.count["_public_subnets"]) |->
               <<Lookup("BastionInstanceTypeSettings", net),
                 Lookup("ServerKeyPairSettings", net),
                 Lookup("ServerAmiSettings", net),
                 Declare("ec2.Instance", <<app, net, "bastion", IntStr(i)>>),
                 Push("_ec2")>>])
    \o ForEach([i \in 1..(IF MAX_EC2_INSTANCES < a.count["_public_subnets"]
                         THEN MAX_EC2_INSTANCES
                         ELSE a.count["_public_subnets"]) |->
               <<Declare("ec2.CfnEIP", <<app, net, "elastic-ip", IntStr(i)>>),
                 Push("_eip")>>])

\* stacks/bastion.py: BastionStack.export, one name per instance in self._ec2
BastionStackExport(a) ==
    ForEach([i \in 1..(a.count["_ec2"]) |->
               <<Export(Name(<<app, net, "bastion", IntStr(i), "ip">>))>>])

\* stacks/application.py: ApplicationStack.deploy (_create_eb_app)
ApplicationStackDeploy ==
    <<Require(Truthy(application), "AttributeError", "Unknown application name!"),
      Require(Truthy(network), "AttributeError", "Unknown network name!"),
      Declare("eb.CfnApplication", <<app, net, "app">>),
      SetAttr("_app")>>

\* stacks/application.py: ApplicationStack.export
ApplicationStackExport ==
    <<UseAttr("_app"),
      Export(Name(<<app, net, "application", "name">>))>>

\* stacks/media.py: MediaStack.deploy (_create_bucket, _create_distribution)
MediaStackDeploy ==
    <<Require(Truthy(application), "AttributeError", "Unknown application name!"),
      Require(Truthy(network), "AttributeError", "Unknown network name!"),
      Declare("s3.Bucket", <<app, net, "s3-bucket">>),
      SetAttr("_bucket"),
      Declare("cdn.Distribution", <<app, net, "cdn">>),
      SetAttr("_distribution")>>

\* stacks/media.py: MediaStack.export
MediaStackExport ==
    <<UseAttr("_bucket"),
      Export(Name(<<app, net, "bucket", "name">>)),
      UseAttr("_distribution"),
      Export(Name(<<app, net, "cdn", "domain">>))>>

\* stacks/cache.py: CacheStack.deploy (_create_sg, _create_subnet_group, _create_cluster)
CacheStackDeploy ==
    <<Require(Truthy(application), "AttributeError", "Unknown application name!"),
      Require(Truthy(network), "AttributeError", "Unknown network name!"),
      Require(Truthy(region), "AttributeError", "Unknown region name!"),
      NeedItems("_private_subnets", "AttributeError", "Private subnets not found!")>>
    \o SecurityGroup(<<app, net, "cache-security-group">>, <<<<"any_ipv4", "6379">>>>)
    \o <<SetAttr("_sg"),
         NeedItems("_private_subnets", "AttributeError", "No private subnets found!"),
         Declare("cache.CfnSubnetGroup", <<app, net, "redis-subnet-group">>),
         SetAttr("_group"),
         Lookup("CacheInstanceTypeSettings", net),
         UseAttr("_group"),
         UseAttr("_sg"),
         Declare("cache.CfnCacheCluster", <<app, net, "cluster">>),
         SetAttr("_cluster")>>

\* stacks/cache.py: CacheStack.export
CacheStackExport ==
    <<UseAttr("_cluster"),
      Export(Name(<<app, net, "cache", "host">>)),
      Export(Name(<<app, net, "cache", "port">>))>>

\* stacks/search.py: OpensearchStack.deploy (_create_sg, _create_es)
OpensearchStackDeploy ==
    <<Require(Truthy(application), "AttributeError", "Unknown application name!"),
      Require(Truthy(network), "AttributeError", "Unknown network name!"),
      Require(Truthy(region), "AttributeError", "Unknown region name!"),
      NeedItems("_private_subnets", "AttributeError", "Private subnets not found!")>>
    \o SecurityGroup(<<app, net, "os-security-group">>, <<<<"any_ipv4", "443">>>>)
    \o <<SetAttr("_sg"),
         Lookup("SearchVolumeSizeSettings", net),
         UseAttr("_sg"),
         Lookup("SearchMasterNodeCountSettings", net),
         Lookup("SearchMasterNodeTypeSettings", net),
         Lookup("SearchNodeTypeSettings", net),
         Lookup("SearchNodeCountSettings", net),
         Declare("os.CfnDomain", <<app, net, "os-domain">>),
         SetAttr("_domain")>>

\* stacks/search.py: OpensearchStack.export
OpensearchStackExport ==
    <<UseAttr("_domain"),
      Export(Name(<<app, net, "opensearch", "host">>))>>

\* What describe_db_snapshots can answer: an error, or a response whose
\* 'DBSnapshots' lists the Status of up to MaxSnapshots snapshots.
MaxSnapshots == 2

SnapshotResponses ==
    {[error |-> e, DBSnapshots |-> <<>>] : e \in {"DBSnapshotNotFound", "AccessDenied"}}
    \cup {[error |-> "", DBSnapshots |-> q] :
            q \in UNION {[1..k -> {"available", "creating"}] : k \in 0..MaxSnapshots}}

\* A variant of the handler that swallows every error of the lookup.
SnapshotErrorNeverPropagates(resp) == FALSE

\* stacks/database.py: DatabaseStack._snapshot_exists, the error that leaves it:
\* any error whose text does not contain 'DBSnapshotNotFound'
SnapshotErrorPropagates(resp) == resp.error # "" /\ resp.error # "DBSnapshotNotFound"

\* stacks/database.py: DatabaseStack._snapshot_exists, its result: the loop
\* returns on the first snapshot of the response
SnapshotExists(resp) ==
    /\ resp.error = ""
    /\ Len(resp.DBSnapshots) > 0
    /\ resp.DBSnapshots[1] = "available"

\* stacks/database.py: DatabaseStack._get_common_rds_config
CommonRdsConfig ==
    <<Lookup("DatabaseStorageSize", db),
      Lookup("DatabaseInstanceTypeSettings", db),
      Lookup("DatabaseDeletionProtectionSettings", db),
      UseAttr("_sg")>>

\* stacks/database.py: DatabaseStack._create_db_from_snapshot
CreateDbFromSnapshot ==
    <<Lookup("DatabaseSnapshotName", net),
      Lookup("DatabaseUsernameSettings", db)>>
    \o CommonRdsConfig
    \o <<Declare("rds.DatabaseInstanceFromSnapshot", <<app, net, db, "db">>),
         SetAttr("_db")>>

\* stacks/database.py: DatabaseStack._create_db_from_scratch
CreateDbFromScratch ==
    <<Lookup("DatabaseEncryptionSettings", db),
      Lookup("DatabaseNameSettings", db),
      Lookup("DatabaseUsernameSettings", db)>>
    \o CommonRdsConfig
    \o <<Declare("rds.DatabaseInstance", <<app, net, db, "db">>),
         SetAttr("_db")>>

\* stacks/database.py: DatabaseStack._create_db with _snapshot_exists
CreateDb(resp) ==
    <<Require(~SnapshotErrorPropagates(resp), "ClientError", resp.error)>>
    \o (IF SnapshotExists(resp) THEN CreateDbFromSnapshot ELSE CreateDbFromScratch)

\* stacks/database.py: DatabaseStack.deploy up to the describe_db_snapshots
\* call of _snapshot_exists (the checks, _create_sg, the snapshot name)
DatabaseStackBeforeSnapshot ==
    <<Require(Truthy(application), "AttributeError", "Unknown application name!"),
      Require(Truthy(network), "AttributeError", "Unknown network name!"),
      Require(Truthy(profile), "AttributeError", "Unknown profile name!"),
      Require(Truthy(database), "AttributeError", "Unknown database name!"),
      Require(Truthy(region), "AttributeError", "Unknown region name!"),
      NeedItems("_private_subnets", "AttributeError", "Private subnets not found!")>>
    \o SecurityGroup(<<app, net, db, "database-security-group">>, <<<<"any_ipv4", "3306">>>>)
    \o <<SetAttr("_sg"),
         Lookup("DatabaseSnapshotName", net)>>

\* stacks/database.py: DatabaseStack._snapshot_exists is reached and calls
\* describe_db_snapshots, on a stack whose attributes are a
AsksSnapshot(a) == Run(DatabaseStackBeforeSnapshot, a).err = NoError

\* stacks/database.py: DatabaseStack.deploy (_create_sg, _create_db)
DatabaseStackDeploy(resp) == DatabaseStackBeforeSnapshot \o CreateDb(resp)

\* stacks/database.py: DatabaseStack.export
DatabaseStackExport ==
    <<UseAttr("_db"),
      Export(Name(<<app, net, db, "database", "host">>)),
      Export(Name(<<app, net, db, "database", "port">>)),
      Export(Name(<<app, net, db, "database", "secret">>))>>

\* stacks/environment.py: BeanstalkStack.__init__ with _get_redis_db
BeanstalkStackInit ==
    <<Require(Truthy(network), "AttributeError", "Network is missing"),
      Require(Truthy(environment), "AttributeError", "Environment is missing"),
      Lookup("SharedCacheDatabaseSettings", net),
      SetAttr("_redis_db")>>

\* int(hashlib.sha256(name.encode("utf-8")).hexdigest(), 16) % 10 ** 8, for the
\* environment names considered.
Sha256Mod8(name) ==
    CASE name = "production" -> 62372468
      [] name = "staging" -> 26956250
      [] name = "development" -> 60731677
      [] name = "testing" -> 60550032
      [] name = "dev" -> 35088487
      [] name = "prod" -> 52935287
      [] name = "qa" -> 8213906
      [] name = "demo" -> 3209706

\* A variant of _get_redis_db that never consults SharedCacheDatabaseSettings.
GetRedisDbAlwaysHashed(net_name, env_name) ==
    IF ~Truthy(net_name) THEN [raised |-> "AttributeError", value |-> None]
    ELSE IF ~Truthy(env_name) THEN [raised |-> "AttributeError", value |-> None]
    ELSE [raised |-> "", value |-> PyStr(IntStr(Sha256Mod8(env_name.s) % 10))]

\* stacks/environment.py: BeanstalkStack._get_redis_db, for a stack built with
\* the network net_name and the environment env_name; str(numeric)[-1] is the
\* last decimal digit of numeric.
GetRedisDb(net_name, env_name) ==
    IF ~Truthy(net_name) THEN [raised |-> "AttributeError", value |-> None]
    ELSE IF ~Truthy(env_name) THEN [raised |-> "AttributeError", value |-> None]
    ELSE LET shared == Get("SharedCacheDatabaseSettings", net_name.s)
         IN  IF shared.raised # "" THEN [raised |-> shared.raised, value |-> None]
             ELSE IF Truthy(shared.value) THEN [raised |-> "", value |-> PyStr("0")]
             ELSE [raised |-> "", value |-> PyStr(IntStr(Sha256Mod8(env_name.s) % 10))]

\* Option values as _cast_to_string sees them: the text of a str is kept as its
\* sequence of characters, a dict as the sequence of its (key, value) items in
\* insertion order, a float only by its type.
OptStr(chars) == [type |-> "str", chars |-> chars, n |-> 0, items |-> <<>>]
OptBool(b) == [type |-> "bool", chars |-> <<>>, n |-> IF b THEN 1 ELSE 0, items |-> <<>>]
OptInt(n) == [type |-> "int", chars |-> <<>>, n |-> n, items |-> <<>>]
OptNone == [type |-> "NoneType", chars |-> <<>>, n |-> 0, items |-> <<>>]
OptFloat == [type |-> "float", chars |-> <<>>, n |-> 0, items |-> <<>>]
OptList(items) == [type |-> "list", chars |-> <<>>, n |-> 0, items |-> items]
OptDict(items) == [type |-> "dict", chars |-> <<>>, n |-> 0, items |-> items]

\* str(value) of a bool, as Python spells it.
PythonStrBool(value) == IF value.n = 1 THEN <<"T", "r", "u", "e">> ELSE <<"F", "a", "l", "s", "e">>

\* json.dumps(value) for a bool
JsonDumpsBool(value) == IF value.n = 1 THEN <<"t", "r", "u", "e">> ELSE <<"f", "a", "l", "s", "e">>

\* the decimal digits of a natural number
RECURSIVE DecimalDigits(_)
DecimalDigits(n) == IF n < 10 THEN <<IntStr(n)>> ELSE DecimalDigits(n \div 10) \o <<IntStr(n % 10)>>

\* The text of a str of printable ASCII characters as json.dumps writes it
\* between double quotes: a backslash before every double quote and backslash.
RECURSIVE JsonEscape(_)
JsonEscape(chars) ==
    IF chars = <<>> THEN <<>>
    ELSE (IF Head(chars) \in {"\"", "\\"} THEN <<"\\", Head(chars)>> ELSE <<Head(chars)>>)
         \o JsonEscape(Tail(chars))

\* separator.join(parts)
RECURSIVE Join(_, _)
Join(parts, separator) ==
    IF parts = <<>> THEN <<>>
    ELSE IF Len(parts) = 1 THEN parts[1]
    ELSE parts[1] \o separator \o Join(Tail(parts), separator)

\* json.dumps(value) with the default separators ', ' and ': '
RECURSIVE JsonDumps(_)
JsonDumps(value) ==
    CASE value.type = "dict" ->
           <<"{">>
           \o Join([i \in 1..Len(value.items) |->
                       <<"\"">> \o JsonEscape(value.items[i][1]) \o <<"\"">> \o <<":", " ">> \o JsonDumps(value.items[i][2])],
                   <<",", " ">>)
           \o <<"}">>
      [] value.type = "list" ->
           <<"[">>
           \o Join([i \in 1..Len(value.items) |-> JsonDumps(value.items[i])], <<",", " ">>)
           \o <<"]">>
      [] value.type = "str" -> <<"\"">> \o JsonEscape(value.chars) \o <<"\"">>
      [] value.type = "bool" -> JsonDumpsBool(value)
      [] value.type = "int" ->
           IF value.n < 0 THEN <<"-">> \o DecimalDigits(0 - value.n)
           ELSE DecimalDigits(value.n)

\* stacks/environment.py: BeanstalkStack._cast_to_string; an exception raised
\* for an item leaves the comprehension and the call.
RECURSIVE CastToString(_)
CastToString(value) ==
    CASE value.type = "dict" ->
           LET cast == [i \in 1..Len(value.items) |-> CastToString(value.items[i][2])]
           IN  IF \E i \in 1..Len(cast) : cast[i].raised # ""
               THEN [raised |-> "TypeError", value |-> OptNone]
               ELSE [raised |-> "",
                     value |-> OptDict([i \in 1..Len(cast) |->
                                           <<value.items[i][1], cast[i].value>>])]
      [] value.type = "list" ->
           LET cast == [i \in 1..Len(value.items) |-> CastToString(value.items[i])]
           IN  IF \E i \in 1..Len(cast) : cast[i].raised # ""
               THEN [raised |-> "TypeError", value |-> OptNone]
               ELSE [raised |-> "",
                     value |-> OptStr(JsonDumps(OptList([i \in 1..Len(cast) |->
                                                            cast[i].value])))]
      [] value.type = "str" -> [raised |-> "", value |-> value]
      [] value.type = "bool" -> [raised |-> "", value |-> OptStr(JsonDumps(value))]
      [] value.type = "int" -> [raised |-> "", value |-> OptStr(JsonDumps(value))]
      [] OTHER -> [raised |-> "TypeError", value |-> OptNone]

\* stacks/environment.py: BeanstalkStack.load
BeanstalkStackLoad ==
    NetworkProtectedStackLoad
    \o <<Require(Truthy(application), "AttributeError", "Unknown application name!"),
         Require(Truthy(network), "AttributeError", "Unknown network name!"),
         Require(Truthy(database), "AttributeError", "Unknown database name!"),
         Import(Name(<<app, net, "application", "name">>)), SetAttr("_eb_app_name"),
         Import(Name(<<app, net, "cache", "host">>)), SetAttr("_redis_host"),
         Import(Name(<<app, net, "cache", "port">>)), SetAttr("_reids_port"),
         Import(Name(<<app, net, db, "database", "host">>)), SetAttr("_db_host"),
         Import(Name(<<app, net, db, "database", "port">>)), SetAttr("_db_port"),
         Import(Name(<<app, net, db, "database", "secret">>)), SetAttr("_db_secret"),
         Import(Name(<<app, net, "opensearch", "host">>)), SetAttr("_os_host"),
         Import(Name(<<app, net, "application", "ec2", "sg", "id">>)), SetAttr("_ec2_sg_id"),
         Import(Name(<<app, net, "application", "elb", "sg", "id">>)), SetAttr("_elb_sg_id"),
         Import(Name(<<app, net, "application", "ec2", "role", "name">>)), SetAttr("_ec2_role_name"),
         Import(Name(<<app, net, "application", "elb", "role", "name">>)), SetAttr("_elb_role_name"),
         Import(Name(<<app, net, "application", "ec2", "profile", "name">>)), SetAttr("_ec2_profile_name"),
         Import(Name(<<app, net, "bucket", "name">>)), SetAttr("_cdn_bucket_name"),
         Import(Name(<<app, net, "cdn", "domain">>)), SetAttr("_cdn_domain_name"),
         Import(Name(<<app, "deployments", "bucket", "name">>)), SetAttr("_deployments_bucket")>>

\* stacks/environment.py: BeanstalkStack._get_rolling_update_options
RollingUpdateOptions ==
    <<Lookup("RollingUpdateRollingUpdateEnabledSettings", net)>>
    \o (IF Truthy(Get("RollingUpdateRollingUpdateEnabledSettings", net).value)
        THEN <<Lookup("RollingUpdateMaxBatchSizeSettings", net),
               Lookup("RollingUpdateMinInstancesInServiceSettings", net)>>
        ELSE <<>>)

\* stacks/environment.py: BeanstalkStack._get_launch_options
LaunchOptions ==
    <<NeedAttr("_ec2_profile_name", "RuntimeError", "EC2 Profile not found!"),
      Lookup("BeanstalkServerAmiSettings", env),
      Lookup("ServerKeyPairSettings", net),
      Lookup("BeanstalkStorageSize", net)>>

\* stacks/environment.py: BeanstalkStack._get_options, in the order of its dictionary
GetOptions ==
    <<UseAttr("_secret"), UseAttr("_bucket"),
      Lookup("DebugModeSettings", net),
      Lookup("BeanstalkInstanceTypeSettings", net)>>
    \o RollingUpdateOptions
    \o <<Lookup("MinNodesSettings", env),
         Lookup("MaxNodesSettings", env)>>
    \o LaunchOptions
    \o <<NeedItems("_private_subnets", "AttributeError", "Failed to find private subnets!"),
         NeedItems("_public_subnets", "AttributeError", "Failed to find private subnets!"),
         UseAttr("_vpc"),
         Lookup("BeanstalkLoadBalancerSchemeSettings", net),
         Lookup("HttpsCertificateSettings", net),
         NeedAttr("_elb_role_name", "RuntimeError", "ELB Role not found!")>>

\* stacks/environment.py: BeanstalkStack.deploy
\* (_create_version, _create_secret, _create_bucket, _create_env)
BeanstalkStackDeploy ==
    <<Require(Truthy(application), "AttributeError", "Unknown application name!"),
      Require(Truthy(network), "AttributeError", "Unknown network name!"),
      Require(Truthy(database), "AttributeError", "Unknown database name!"),
      Require(Truthy(environment), "AttributeError", "Unknown environment name!"),
      Require(Truthy(region), "AttributeError", "Unknown region name!"),
      NeedItems("_private_subnets", "AttributeError", "Private subnets not found!"),
      NeedItems("_public_subnets", "AttributeError", "Private subnets not found!"),
      Require(Truthy(application), "AttributeError", "Missing application name!"),
      Require(Truthy(environment), "AttributeError", "Missing environment name!"),
      Declare("eb.CfnApplicationVersion", <<app, env, "application-version">>),
      SetAttr("_version"),
      Declare("secrets.Secret", <<app, net, env, "secret-key">>),
      SetAttr("_secret"),
      Declare("s3.Bucket", <<app, net, env, "frontend-bucket">>),
      SetAttr("_bucket"),
      NeedAttr("_eb_app_name", "AttributeError", "Unknown AWS Elastic Beanstalk application name!"),
      Require(Truthy(environment), "AttributeError", "Unknown AWS Elastic Beanstalk environment name!")>>
    \o GetOptions
    \o <<Declare("eb.CfnEnvironment", <<app, net, "application", env>>),
         SetAttr("_eb_env")>>

\* stacks/environment.py: BeanstalkStack.export
BeanstalkStackExport ==
    <<UseAttr("_eb_env"),
      Export(Name(<<app, net, "app", env, "url">>)),
      UseAttr("_bucket"),
      Export(Name(<<app, net, "frontend", env, "bucket", "name">>)),
      UseAttr("_secret"),
      Export(Name(<<app, net, "app", env, "secret", "name">>)),
      Export(Name(<<app, net, "app", env, "redis", "db">>))>>

-----------------------------------------------------------------------------
(* app.py: the orchestration script.                                       *)

\* The stacks in the order app.py constructs them.
\* A variant of the instantiation sequence with bastion ahead of security.
StackOrderBastionFirst ==
    <<"registry", "network", "bastion", "security", "application",
      "media", "cache", "opensearch", "database", "environment">>

StackOrder ==
    <<"registry", "network", "security", "bastion", "application",
      "media", "cache", "opensearch", "database", "environment">>

Stacks == {StackOrder[i] : i \in 1..Len(StackOrder)}

\* A variant of the declarations without application.add_dependency(registry).
DependenciesWithoutApplicationRegistry ==
    <<<<"registry", "network">>, <<"bastion", "network">>, <<"security", "network">>,
      <<"database", "network">>, <<"media", "network">>, <<"cache", "network">>,
      <<"bastion", "security">>, <<"opensearch", "security">>,
      <<"environment", "security">>, <<"environment", "cache">>,
      <<"environment", "database">>, <<"environment", "opensearch">>,
      <<"environment", "application">>>>

\* The add_dependency calls of app.py, in order: <<a, b>> is a.add_dependency(b).
Dependencies ==
    <<<<"registry", "network">>,
      <<"bastion", "network">>,
      <<"security", "network">>,
      <<"database", "network">>,
      <<"media", "network">>,
      <<"cache", "network">>,
      <<"bastion", "security">>,
      <<"opensearch", "security">>,
      <<"application", "registry">>,
      <<"environment", "security">>,
      <<"environment", "cache">>,
      <<"environment", "database">>,
      <<"environment", "opensearch">>,
      <<"environment", "application">>>>

Op(op, stack, on) == [op |-> op, stack |-> stack, on |-> on]

\* A variant of the sequence in which each stack is exported before it is deployed.
ScriptExportBeforeDeploy ==
    <<Op("settings", "", ""), Op("validate", "", "")>>
    \o ForEach([i \in 1..(Len(StackOrder)) |->
               <<Op("construct", StackOrder[i], ""),
                 Op("load", StackOrder[i], ""),
                 Op("export", StackOrder[i], ""),
                 Op("deploy", StackOrder[i], "")>>])
    \o ForEach([i \in 1..(Len(Dependencies)) |->
               <<Op("add_dependency", Dependencies[i][1], Dependencies[i][2])>>])
    \o <<Op("synth", "", "")>>

\* The statements of app.py, in program order.
Script ==
    <<Op("settings", "", ""), Op("validate", "", "")>>
    \o ForEach([i \in 1..(Len(StackOrder)) |->
               <<Op("construct", StackOrder[i], ""),
                 Op("load", StackOrder[i], ""),
                 Op("deploy", StackOrder[i], ""),
                 Op("export", StackOrder[i], "")>>])
    \o ForEach([i \in 1..(Len(Dependencies)) |->
               <<Op("add_dependency", Dependencies[i][1], Dependencies[i][2])>>])
    \o <<Op("synth", "", "")>>

\* The constructor of each stack class, beyond storing its arguments.
ConstructSteps(s) == IF s = "environment" THEN BeanstalkStackInit ELSE <<>>

\* The load / deploy / export method each stack object resolves to.
PhaseStepsOn(s, ph, resp, a) ==
    CASE ph = "load" ->
            (CASE s \in {"registry", "network", "application", "media"} -> BaseStackPhase
               [] s \in {"security", "cache", "opensearch", "database"} -> NetworkProtectedStackLoad
               [] s = "bastion" -> BastionStackLoad
               [] s = "environment" -> BeanstalkStackLoad)
      [] ph = "deploy" ->
            (CASE s = "registry" -> RegistryStackDeploy
               [] s = "network" -> NetworkStackDeploy
               [] s = "security" -> SecurityStackDeploy
               [] s = "bastion" -> BastionStackDeploy(a)
               [] s = "application" -> ApplicationStackDeploy
               [] s = "media" -> MediaStackDeploy
               [] s = "cache" -> CacheStackDeploy
               [] s = "opensearch" -> OpensearchStackDeploy
               [] s = "database" -> DatabaseStackDeploy(resp)
               [] s = "environment" -> BeanstalkStackDeploy)
      [] ph = "export" ->
            (CASE s = "registry" -> RegistryStackExport
               [] s = "network" -> NetworkStackExport(a)
               [] s = "security" -> SecurityStackExport
               [] s = "bastion" -> BastionStackExport(a)
               [] s = "application" -> ApplicationStackExport
               [] s = "media" -> MediaStackExport
               [] s = "cache" -> CacheStackExport
               [] s = "opensearch" -> OpensearchStackExport
               [] s = "database" -> DatabaseStackExport
               [] s = "environment" -> BeanstalkStackExport)

\* The method as app.py calls it, on the stack object it constructed.
PhaseSteps(s, ph, resp) == PhaseStepsOn(s, ph, resp, attrs[s])

\* A variant in which a statement that raised is attempted again.
StatusAfterRetry(err) == "running"

\* app.py has no try/except: an exception raised by a statement ends the run.
StatusAfter(err) == IF err # NoError THEN "failed" ELSE "running"

\* The script moves to its next statement only when the current one returned.
PcAfter(err) == IF err # NoError THEN pc ELSE pc + 1

Current == Script[pc]

Running == status = "running" /\ pc <= Len(Script)

\* app.py lines 30-40: the settings dictionary; os.environ[...] raises KeyError
\* for a variable that is not set.
ReadSettingsError ==
    IF account = Unset THEN [type |-> "KeyError", msg |-> "CDK_DEFAULT_ACCOUNT"]
    ELSE IF region = Unset THEN [type |-> "KeyError", msg |-> "CDK_DEFAULT_REGION"]
    ELSE NoError

ReadSettings ==
    /\ Running
    /\ Current.op = "settings"
    /\ error' = ReadSettingsError
    /\ status' = StatusAfter(ReadSettingsError)
    /\ pc' = PcAfter(ReadSettingsError)
    /\ UNCHANGED <<context, environ, snapshot, constructed, started, completed, attrs,
                   resources, imports, exports, lookups, deps, synthesized, call>>

\* app.py lines 42-56: the presence checks, in order.  settings['env'] is an
\* Environment object, which is never false.
ValidateError ==
    IF ~Truthy(application) THEN [type |-> "ValueError", msg |-> "application"]
    ELSE IF ~Truthy(database) THEN [type |-> "ValueError", msg |-> "database"]
    ELSE IF ~Truthy(network) THEN [type |-> "ValueError", msg |-> "network"]
    ELSE IF ~Truthy(environment) THEN [type |-> "ValueError", msg |-> "environment"]
    ELSE IF ~Truthy(account) THEN [type |-> "OSError", msg |-> "CDK_DEFAULT_ACCOUNT"]
    ELSE IF ~Truthy(region) THEN [type |-> "OSError", msg |-> "CDK_DEFAULT_REGION"]
    ELSE NoError

Validate ==
    /\ Running
    /\ Current.op = "validate"
    /\ error' = ValidateError
    /\ status' = StatusAfter(ValidateError)
    /\ pc' = PcAfter(ValidateError)
    /\ UNCHANGED <<context, environ, snapshot, constructed, started, completed, attrs,
                   resources, imports, exports, lookups, deps, synthesized, call>>

\* A stack constructor call of app.py.
Construct ==
    /\ Running
    /\ Current.op = "construct"
    /\ LET s == Current.stack
           r == Run(ConstructSteps(s), NewAttrs)
       IN  /\ constructed' = Append(constructed, s)
           /\ attrs' = [attrs EXCEPT ![s] = r.attr]
           /\ lookups' = lookups \cup r.lk
           /\ error' = r.err
           /\ status' = StatusAfter(r.err)
           /\ pc' = PcAfter(r.err)
    /\ UNCHANGED <<context, environ, snapshot, started, completed, resources, imports,
                   exports, deps, synthesized, call>>

\* stack.load(), stack.deploy() or stack.export() of app.py.  DatabaseStack.deploy
\* asks the RDS service for the snapshot; the answer is an input of that step.
RunPhase ==
    /\ Running
    /\ Current.op \in {"load", "deploy", "export"}
    /\ \E resp \in (IF Current.stack = "database" /\ Current.op = "deploy"
                    THEN SnapshotResponses ELSE {snapshot}) :
         LET s == Current.stack
             ph == Current.op
             r == Run(PhaseSteps(s, ph, resp), attrs[s])
             asked == s = "database" /\ ph = "deploy" /\ AsksSnapshot(attrs[s])
         IN  /\ snapshot' = IF asked THEN resp ELSE snapshot
             /\ started' = [started EXCEPT ![s][ph] = @ + 1]
             /\ completed' = [completed EXCEPT ![s] = IF r.err = NoError THEN @ \cup {ph} ELSE @]
             /\ attrs' = [attrs EXCEPT ![s] = r.attr]
             /\ resources' = [resources EXCEPT ![s] = @ \o r.res]
             /\ imports' = [imports EXCEPT ![s] = @ \cup r.imp]
             /\ exports' = [exports EXCEPT ![s] = @ \cup r.exp]
             /\ lookups' = lookups \cup r.lk
             /\ error' = r.err
             /\ status' = StatusAfter(r.err)
             /\ pc' = PcAfter(r.err)
    /\ UNCHANGED <<context, environ, constructed, deps, synthesized, call>>

\* a.add_dependency(b) of app.py lines 259-272.
AddDependency ==
    /\ Running
    /\ Current.op = "add_dependency"
    /\ deps' = deps \cup {<<Current.stack, Current.on>>}
    /\ pc' = pc + 1
    /\ UNCHANGED <<context, environ, snapshot, status, error, constructed, started, completed,
                   attrs, resources, imports, exports, lookups, synthesized, call>>

\* app.synth() of app.py line 275, the last statement.
Synth ==
    /\ Running
    /\ Current.op = "synth"
    /\ synthesized' = TRUE
    /\ status' = "done"
    /\ pc' = pc + 1
    /\ UNCHANGED <<context, environ, snapshot, error, constructed, started, completed,
                   attrs, resources, imports, exports, lookups, deps, call>>

-----------------------------------------------------------------------------
(* The runs checked: every combination of these CLI parameters, process    *)
(* environments and RDS answers.                                          *)

Applications == {None, PyStr(""), PyStr("shop")}
DatabaseNames == {None, PyStr(""), PyStr("proddb"), PyStr("mydb")}
Networks == {None, PyStr(""), PyStr("mainnet"), PyStr("testnet"), PyStr("devnet"), PyStr("othernet")}
EnvironmentNames == {None, PyStr(""), PyStr("production"), PyStr("staging")}
Profiles == {None, PyStr(""), PyStr("default")}
Accounts == {Unset, PyStr(""), PyStr("123456789012")}
Regions == {Unset, PyStr(""), PyStr("us-west-2")}

\* describe_db_snapshots has not been called yet.
NotAsked == [error |-> "not asked", DBSnapshots |-> <<>>]

NoCall == [cls |-> "", name |-> "", result |-> [raised |-> "", value |-> None]]

InitRun ==
    /\ pc = 1
    /\ status = "running"
    /\ error = NoError
    /\ constructed = <<>>
    /\ started = [s \in Stacks |-> [ph \in {"load", "deploy", "export"} |-> 0]]
    /\ completed = [s \in Stacks |-> {}]
    /\ attrs = [s \in Stacks |-> NewAttrs]
    /\ resources = [s \in Stacks |-> <<>>]
    /\ imports = [s \in Stacks |-> {}]
    /\ exports = [s \in Stacks |-> {}]
    /\ lookups = {}
    /\ deps = {}
    /\ synthesized = FALSE

Init ==
    /\ context \in [profile : Profiles, application : Applications, database : DatabaseNames,
                    network : Networks, environment : EnvironmentNames]
    /\ environ \in [CDK_DEFAULT_ACCOUNT : Accounts, CDK_DEFAULT_REGION : Regions]
    /\ snapshot = NotAsked
    /\ InitRun
    /\ call = NoCall

Next ==
    \/ ReadSettings
    \/ Validate
    \/ Construct
    \/ RunPhase
    \/ AddDependency
    \/ Synth

Spec == Init /\ [][Next]_vars

-----------------------------------------------------------------------------
(* Settings.get called directly, on every class and a range of names.      *)

CallGet ==
    /\ \E cls \in DOMAIN SettingsClasses,
          name \in {"mainnet", "testnet", "devnet", "othernet", "proddb", "demodb", "mydb",
                    "production", "staging", "default", "get", "cycle", "length"} :
          call' = [cls |-> cls, name |-> name, result |-> Get(cls, name)]
    /\ UNCHANGED runVars

InitSettings ==
    /\ context = [profile |-> PyStr("default"), application |-> PyStr("shop"),
                  database |-> PyStr("mydb"), network |-> PyStr("devnet"),
                  environment |-> PyStr("staging")]
    /\ environ = [CDK_DEFAULT_ACCOUNT |-> PyStr("123456789012"), CDK_DEFAULT_REGION |-> PyStr("us-west-2")]
    /\ snapshot = NotAsked
    /\ InitRun
    /\ call = NoCall

SpecSettings == InitSettings /\ [][CallGet]_vars

-----------------------------------------------------------------------------
(* NetworkStack.deploy on a fresh stack, for settings tables that hold any *)
(* VPC CIDR and any lists of up to MaxBlocks subnet CIDR blocks.           *)

MaxBlocks == 2

DeployNetwork ==
    /\ call = NoCall
    /\ LET CidrBlocks == {"10.0.0.0/19", "10.0.32.0/19", "10.1.0.0/19", "10.11.0.0/19"}
           BlockLists == UNION {[1..k -> CidrBlocks] : k \in 0..MaxBlocks}
       IN
       \E v \in {"10.0.0.0/16", "10.1.0.0/16"}, pub \in BlockLists, priv \in BlockLists :
          call' = [cls |-> "NetworkStack", name |-> "deploy",
                   vpc_cidr |-> v, public |-> pub, private |-> priv,
                   result |-> Run(NetworkStackDeployWith(v, pub, priv), NewAttrs)]
    /\ UNCHANGED runVars

SpecNetwork == InitSettings /\ [][DeployNetwork]_vars

-----------------------------------------------------------------------------
(* Two BeanstalkStack objects constructed for the same network: the Redis  *)
(* database id each constructor computes.                                  *)

ConstructEnvironments ==
    /\ call = NoCall
    /\ LET RedisEnvironments ==
               {None, PyStr("")}
               \cup {PyStr(e) : e \in {"production", "staging", "development", "testing",
                                       "dev", "prod", "qa", "demo"}}
       IN
       \* the network names of the runs, and one that is also the name of a
       \* method every settings class inherits
       \E n \in Networks \cup {PyStr("get")},
          e1 \in RedisEnvironments, e2 \in RedisEnvironments :
          call' = [cls |-> "BeanstalkStack", name |-> "_get_redis_db",
                   network |-> n, environments |-> <<e1, e2>>,
                   results |-> <<GetRedisDb(n, e1), GetRedisDb(n, e2)>>]
    /\ UNCHANGED runVars

SpecRedis == InitSettings /\ [][ConstructEnvironments]_vars

-----------------------------------------------------------------------------
(* _cast_to_string applied to an option value, and then to what it         *)
(* returned.                                                                *)

MaxItems == 2

OptionValues ==
    LET Lists(V) == UNION {[1..n -> V] : n \in 0..MaxItems}
        \* lists of at most MaxItems items of V
        OptionLists(V) == {OptList(items) : items \in Lists(V)}
        KeySeqs == {ks \in Lists({<<"k">>, <<"a", "b">>}) :
                       \A i, j \in 1..Len(ks) : i # j => ks[i] # ks[j]}
        \* dicts of at most MaxItems items, with distinct keys and values of V
        OptionDicts(V) ==
            {OptDict([i \in 1..Len(p[1]) |-> <<p[1][i], p[2][i]>>]) :
                p \in {q \in KeySeqs \X Lists(V) : Len(q[1]) = Len(q[2])}}
        Quote == <<"\"">>
        OptionLeaves ==
            {OptStr(<<>>), OptStr(<<"a">>), OptStr(Quote), OptStr(<<"\\">>),
             OptBool(TRUE), OptBool(FALSE),
             OptInt(0), OptInt(7), OptInt(42), OptInt(0 - 5),
             OptNone, OptFloat}
        OptionSample == {OptStr(Quote), OptBool(TRUE), OptInt(42), OptNone}
        OptionItems ==
            OptionSample
            \cup {OptList(<<>>), OptList(<<OptBool(TRUE), OptStr(Quote)>>), OptList(<<OptNone>>),
                  OptDict(<<<<(<<"k">>), OptInt(42)>>>>), OptDict(<<<<(<<"k">>), OptFloat>>>>)}
    IN  OptionLeaves
        \cup OptionLists(OptionSample) \cup OptionDicts(OptionSample)
        \cup OptionLists(OptionItems) \cup OptionDicts(OptionItems)

CastOptions ==
    /\ call = NoCall
    /\ \E value \in OptionValues :
          LET result == CastToString(value)
          IN  call' = [cls |-> "BeanstalkStack", name |-> "_cast_to_string",
                       value |-> value, result |-> result,
                       again |-> IF result.raised = "" THEN CastToString(result.value)
                                 ELSE result]
    /\ UNCHANGED runVars

SpecCast == InitSettings /\ [][CastOptions]_vars

-----------------------------------------------------------------------------
(* deploy and then export called on one stack object of a class derived    *)
(* from NetworkProtectedStack: either as constructed, or after a load that *)
(* imported pub public and priv private subnets.                           *)

MaxSubnets == 3

ProtectedStacks == {"security", "bastion", "cache", "opensearch", "database", "environment"}

\* The attributes of stack s after its constructor, and then after load when
\* load imported pub public and priv private subnets.
AttrsOf(s, loaded, pub, priv) ==
    LET c == Run(ConstructSteps(s), NewAttrs).attr
        l == Run(PhaseStepsOn(s, "load", NotAsked, c), c).attr
    IN  IF loaded
        THEN [l EXCEPT !.count["_public_subnets"] = pub, !.count["_private_subnets"] = priv]
        ELSE c

DeployStack ==
    /\ call = NoCall
    /\ \E s \in ProtectedStacks, loaded \in BOOLEAN, pub \in 0..MaxSubnets, priv \in 0..MaxSubnets,
          resp \in SnapshotResponses :
          \E a \in {AttrsOf(s, loaded, pub, priv)} :
          \E d \in {Run(PhaseStepsOn(s, "deploy", resp, a), a)} :
          \E e \in {Run(PhaseStepsOn(s, "export", resp, d.attr), d.attr)} :
             call' = [cls |-> s, name |-> "deploy", loaded |-> loaded, attr |-> a,
                      resp |-> IF s = "database" THEN resp ELSE NotAsked,
                      deployed |-> d, exported |-> e]
    /\ UNCHANGED runVars

SpecStack == InitSettings /\ [][DeployStack]_vars

-----------------------------------------------------------------------------
(* Helpers of the properties.                                              *)

Contains(seq, x) == \E i \in 1..Len(seq) : seq[i] = x

AllPhases == {"load", "deploy", "export"}

DeclaredDependencies == {Dependencies[i] : i \in 1..Len(Dependencies)}

\* The stacks reachable from the set S along the dependency pairs D.
RECURSIVE Reach(_, _)
Reach(D, S) ==
    LET N == S \cup {d[2] : d \in {e \in D : e[1] \in S}}
    IN  IF N = S THEN S ELSE Reach(D, N)

\* The direct and transitive dependencies of stack s.
DependenciesOf(D, s) == Reach(D, {d[2] : d \in {e \in D : e[1] = s}})

\* The stacks that export a name.
Exporters(name) == {e \in Stacks : name \in exports[e]}

AllExported == \A s \in Stacks : "export" \in completed[s]

TableNetworks == {"mainnet", "testnet", "devnet"}

\* The first CLI parameter, in the order of the checks, that is absent or empty.
FirstMissingParameter ==
    IF ~Truthy(application) THEN "application"
    ELSE IF ~Truthy(database) THEN "database"
    ELSE IF ~Truthy(network) THEN "network"
    ELSE IF ~Truthy(environment) THEN "environment"
    ELSE ""

\* The first of the two environment variables that is unset or empty.
FirstMissingVariable ==
    IF account = Unset \/ ~Truthy(account) THEN "CDK_DEFAULT_ACCOUNT"
    ELSE IF region = Unset \/ ~Truthy(region) THEN "CDK_DEFAULT_REGION"
    ELSE ""

NothingDeclared == constructed = <<>> /\ \A s \in Stacks : resources[s] = <<>>

-----------------------------------------------------------------------------
(* The properties.                                                         *)

\* C1: Settings.get(name) returns the value of the tier key `name` when the
\* class declares it, else the class's default when it declares one, else
\* raises KeyError -- for every name, the names of inherited attributes included.
GetResolvesKeyOrDefault ==
    call # NoCall =>
        IF call.name \in DeclaredKeys(call.cls)
        THEN call.result = [raised |-> "", value |-> SettingsClasses[call.cls][call.name]]
        ELSE IF "default" \in DeclaredKeys(call.cls)
             THEN call.result = [raised |-> "", value |-> SettingsClasses[call.cls]["default"]]
             ELSE call.result.raised = "KeyError"

\* C2 (as claimed): for every declared dependency "a depends on b", b has been
\* constructed and has completed load, deploy and export before a is constructed.
ConstructedInDependencyOrder ==
    \A d \in DeclaredDependencies :
        Contains(constructed, d[1]) => Contains(constructed, d[2]) /\ completed[d[2]] = AllPhases

\* C2 (amended): the same for every declared dependency other than
\* registry -> network; the registry stack is constructed before the network stack.
ConstructedInDependencyOrderButRegistry ==
    \A d \in DeclaredDependencies \ {<<"registry", "network">>} :
        Contains(constructed, d[1]) => Contains(constructed, d[2]) /\ completed[d[2]] = AllPhases

\* C2 witness: the last stack, which has five declared dependencies, is constructed.
EnvironmentConstructed ==
    Contains(constructed, "environment") /\ status = "running"

\* C3: when the run is done, the exporter of every name a stack imports is a
\* direct or transitive declared dependency of the importing stack.
ImportsFollowDependencies ==
    status = "done" =>
        \A s \in Stacks : \A n \in imports[s] : \A e \in Exporters(n) :
            e \in DependenciesOf(deps, s)

\* C4: once the ten stacks have run export, every name imported by any stack
\* is exported, under the same string, by exactly one stack.
ImportsExportedExactlyOnce ==
    AllExported =>
        \A s \in Stacks : \A n \in imports[s] : Cardinality(Exporters(n)) = 1

\* C4 witness: all ten stacks exported on the network with three subnets of
\* each kind, and the environment stack holds its imports.
AllExportedOnMainnet ==
    /\ AllExported
    /\ net = "mainnet"
    /\ Cardinality(imports["environment"]) > 15
    /\ Cardinality(exports["network"]) = 7

\* C5: in the declared dependency graph every stack other than the network
\* stack depends, directly or transitively, on the network stack.
EveryStackDependsOnNetwork ==
    status = "done" =>
        \A s \in Stacks \ {"network"} : "network" \in DependenciesOf(deps, s)

\* C5 witness: the run is done with all fourteen dependencies declared.
AllDependenciesDeclared ==
    status = "done" /\ deps = DeclaredDependencies /\ Cardinality(deps) = 14

\* C6: a run with an absent or empty CLI parameter ends with ValueError naming
\* the first missing one in the order application, database, network,
\* environment, before any stack is constructed.
MissingParameterRaisesValueError ==
    (FirstMissingParameter # "" /\ status # "running") =>
        /\ error = [type |-> "ValueError", msg |-> FirstMissingParameter]
        /\ NothingDeclared

\* C7: with the four CLI parameters present, a run in which CDK_DEFAULT_ACCOUNT
\* or CDK_DEFAULT_REGION is unset or empty ends with OSError naming the
\* variable, and no stack is constructed.
MissingVariableRaisesOSError ==
    (FirstMissingParameter = "" /\ FirstMissingVariable # "" /\ status # "running") =>
        /\ error = [type |-> "OSError", msg |-> FirstMissingVariable]
        /\ NothingDeclared

\* C8: in a run whose profile parameter is absent, no stack is ever
\* constructed and no resource is ever declared.
MissingProfileStopsBeforeStacks ==
    ~Truthy(profile) => NothingDeclared

\* C9, the state part: no phase of any stack is started twice; a run in which
\* something raised has failed and is never synthesized; app.synth() has run
\* only if all ten stacks completed load, deploy and export and all
\* add_dependency declarations were made.
SinglePassState ==
    /\ \A s \in Stacks : \A ph \in AllPhases : started[s][ph] <= 1
    /\ error # NoError => status = "failed" /\ ~synthesized
    /\ synthesized =>
          /\ \A s \in Stacks : completed[s] = AllPhases
          /\ deps = DeclaredDependencies
          /\ error = NoError

\* C9, the step part: once something raised, no phase is started, no stack is
\* constructed, nothing is declared and app.synth() is not reached.
NothingRunsAfterFailure ==
    error # NoError =>
        /\ started' = started
        /\ constructed' = constructed
        /\ resources' = resources
        /\ deps' = deps
        /\ synthesized' = synthesized

\* C9: the run is a single pass with no retry or recovery.
SinglePassNoRetry == []SinglePassState /\ [][NothingRunsAfterFailure]_vars

\* C9 witness: a phase raised in the middle of the run (the RDS lookup failed
\* in DatabaseStack.deploy after eight stacks were completed).
DatabaseDeployFailed ==
    /\ status = "failed"
    /\ error.type = "ClientError"
    /\ started["database"]["deploy"] = 1
    /\ completed["opensearch"] = AllPhases
    /\ ~Contains(constructed, "environment")

Octets(cidr) ==
    CASE cidr \in {"10.0.0.0/16", "10.0.0.0/19", "10.0.32.0/19", "10.0.64.0/19",
                   "10.0.96.0/19", "10.0.128.0/19", "10.0.160.0/19"} -> <<10, 0>>
      [] cidr \in {"10.1.0.0/16", "10.1.0.0/19", "10.1.32.0/19", "10.1.64.0/19",
                   "10.1.96.0/19"} -> <<10, 1>>
      [] cidr \in {"10.11.0.0/16", "10.11.0.0/19", "10.11.32.0/19", "10.11.64.0/19",
                   "10.11.96.0/19"} -> <<10, 11>>
      [] OTHER -> <<>>

NetworkDeployed == call # NoCall /\ call.cls = "NetworkStack"

\* The subnet blocks of a NetworkStack.deploy call in the order they are
\* visited: <<kind, index, block>>, public ones first.
VisitedBlocks ==
    [i \in 1..Len(call.public) |-> <<"public", i, call.public[i]>>]
    \o [i \in 1..Len(call.private) |-> <<"private", i, call.private[i]>>]

\* The position in VisitedBlocks of the first block outside the VPC's /16, or 0.
FirstMismatch ==
    LET bad == {i \in 1..Len(VisitedBlocks) : Octets(VisitedBlocks[i][3]) # Octets(call.vpc_cidr)}
    IN  IF bad = {} THEN 0 ELSE CHOOSE i \in bad : \A j \in bad : i <= j

\* The subnets a NetworkStack.deploy call declared, as <<kind, index>>.
DeclaredSubnets ==
    {<<call.result.res[i][4], call.result.res[i][6]>> :
        i \in {j \in 1..Len(call.result.res) : call.result.res[j][1] = "ec2.Subnet"}}

\* C11: in NetworkStack.deploy the subnets declared are exactly those visited
\* before the first block whose first two octets differ from the VPC CIDR's;
\* at that block RuntimeError is raised and nothing but the VPC and those
\* subnets is declared; without such a block no RuntimeError is raised and
\* every block gets its subnet; and no block of the settings tables of
\* mainnet, testnet and devnet differs from its VPC CIDR.
CidrValidation ==
    /\ NetworkDeployed =>
          LET k == FirstMismatch
              n == IF k = 0 THEN Len(VisitedBlocks) ELSE k - 1
          IN  /\ DeclaredSubnets = {<<VisitedBlocks[i][1], IntStr(VisitedBlocks[i][2])>> : i \in 1..n}
              /\ k # 0 =>
                    /\ call.result.err = [type |-> "RuntimeError",
                                          msg |-> "The VPC CIDR and the subnet CIDR don't mwatch!"]
                    /\ \A i \in 1..Len(call.result.res) :
                          call.result.res[i][1] \in {"ec2.Vpc", "ec2.Subnet"}
              /\ k = 0 => call.result.err.type # "RuntimeError"
    /\ \A n \in TableNetworks :
          \A cls \in {"PublicSubnetCidrSettings", "PrivateSubnetCidrSettings"} :
             \A i \in 1..Len(SettingsClasses[cls][n].l) :
                Octets(SettingsClasses[cls][n].l[i]) = Octets(SettingsClasses["VpcCidrSettings"][n].s)

\* C11 witness: a private block failed the check after two public subnets
\* and one private subnet were declared.
PrivateBlockRejected ==
    /\ NetworkDeployed
    /\ Len(call.public) = 2
    /\ FirstMismatch = 4
    /\ Cardinality(DeclaredSubnets) = 3
    /\ call.result.err.type = "RuntimeError"

\* The database instances declared in the database stack, by construct type.
DbInstances ==
    LET res == resources["database"]
        at == {i \in 1..Len(res) : res[i][1] \in {"rds.DatabaseInstance", "rds.DatabaseInstanceFromSnapshot"}}
    IN  {<<i, res[i][1]>> : i \in at}

SnapshotAsked == snapshot # NotAsked

SnapshotAnswered == SnapshotAsked /\ snapshot.error = ""

\* C12: when describe_db_snapshots answered, exactly one database instance
\* is declared and self._db is set, and the instance is restored from the
\* snapshot exactly when some snapshot of the response has Status 'available'.
RestoresWhenSomeSnapshotAvailable ==
    SnapshotAnswered =>
        /\ Cardinality(DbInstances) = 1
        /\ "_db" \in attrs["database"].set
        /\ (\E d \in DbInstances : d[2] = "rds.DatabaseInstanceFromSnapshot")
              <=> (\E i \in 1..Len(snapshot.DBSnapshots) : snapshot.DBSnapshots[i] = "available")

\* C13: when describe_db_snapshots raised an error containing
\* 'DBSnapshotNotFound' the deploy completes with one instance created from
\* scratch; when it raised any other error, DatabaseStack.deploy ends with
\* that error, the run has failed and no database instance is declared.
SnapshotErrorHandling ==
    (SnapshotAsked /\ snapshot.error # "") =>
        IF snapshot.error = "DBSnapshotNotFound"
        THEN /\ "deploy" \in completed["database"]
             /\ {d[2] : d \in DbInstances} = {"rds.DatabaseInstance"}
             /\ Cardinality(DbInstances) = 1
        ELSE /\ error = [type |-> "ClientError", msg |-> snapshot.error]
             /\ status = "failed"
             /\ "deploy" \notin completed["database"]
             /\ DbInstances = {}

\* C13 witness: the snapshot was not found and the instance was created from scratch.
SnapshotNotFoundCreatedFromScratch ==
    /\ SnapshotAsked
    /\ snapshot.error = "DBSnapshotNotFound"
    /\ \E d \in DbInstances : d[2] = "rds.DatabaseInstance"
    /\ "deploy" \in completed["database"]

\* The number of constructs of a type among the resources res.
CountOf(res, type) == Cardinality({i \in 1..Len(res) : res[i][1] = type})

StackDeployed(s) == call # NoCall /\ call.name = "deploy" /\ call.cls = s

\* C14: a BastionStack.deploy that completes declares as many bastion servers
\* as the stack has imported public subnets, but no more than 2; it declares
\* one Elastic IP per server, and export then exports one
\* '<application>::<network>::bastion::<i>::ip' per server, i from 1.
BastionCount ==
    (StackDeployed("bastion") /\ call.deployed.err = NoError) =>
        LET subnets == call.attr.count["_public_subnets"]
            n == IF subnets < 2 THEN subnets ELSE 2
        IN  /\ CountOf(call.deployed.res, "ec2.Instance") = n
            /\ CountOf(call.deployed.res, "ec2.CfnEIP") = n
            /\ call.exported.err = NoError
            /\ call.exported.exp = {<<app, net, "bastion", IntStr(i), "ip">> : i \in 1..n}

\* C14 witness: a bastion stack with three public subnets was deployed and
\* exported two addresses.
BastionWithThreeSubnets ==
    /\ StackDeployed("bastion")
    /\ call.attr.count["_public_subnets"] = 3
    /\ call.deployed.err = NoError
    /\ Cardinality(call.exported.exp) = 2

\* The stacks whose deploy needs private subnets, and those that need public ones.
NeedsPrivate == {"cache", "opensearch", "database", "environment"}

NeedsPublic == {"bastion", "environment"}

\* C18: deploy on a bastion, cache, opensearch, database or environment
\* stack whose imported subnets (public for bastion, private for cache,
\* opensearch and database, either kind for environment) are empty raises
\* AttributeError and declares no resource in that stack.
DeployWithoutSubnets ==
    \A s \in NeedsPrivate \cup NeedsPublic :
        (/\ StackDeployed(s)
         /\ \/ s \in NeedsPrivate /\ call.attr.count["_private_subnets"] = 0
            \/ s \in NeedsPublic /\ call.attr.count["_public_subnets"] = 0)
        => /\ call.deployed.err.type = "AttributeError"
           /\ call.deployed.res = <<>>

\* C18 witness: deploy was called on a database stack that was never loaded.
DatabaseDeployedUnloaded ==
    /\ StackDeployed("database")
    /\ ~call.loaded
    /\ call.deployed.err = [type |-> "AttributeError", msg |-> "Private subnets not found!"]

\* The ingress rules declared for the EC2 security group: <<peer, port>>.
Ec2IngressRules ==
    LET res == resources["security"]
    IN  {<<res[i][5], res[i][6]>> :
            i \in {j \in 1..Len(res) : res[j][1] = "ingress" /\ res[j][4] = "ec2-security-group"}}

\* C15: every ingress rule of the EC2 security group is for TCP port 80 or 22
\* and admits only peers inside the VPC: none has the peer any_ipv4 (0.0.0.0/0).
Ec2IngressOnlyWithinVpc ==
    \A r \in Ec2IngressRules : r[2] \in {"80", "22"} /\ r[1] # "any_ipv4"

\* C17: a phase of a stack starts only on a constructed stack, deploy only
\* after its load completed, export only after its deploy completed; a stack
\* is constructed only after all stacks constructed before it completed their
\* three phases; no export raises; and a finished run has started each
\* phase of each of the ten stacks exactly once.
PhasesInOrder ==
    /\ \A s \in Stacks :
          /\ started[s]["load"] > 0 => Contains(constructed, s)
          /\ started[s]["deploy"] > 0 => "load" \in completed[s]
          /\ started[s]["export"] > 0 => "deploy" \in completed[s]
          /\ \A ph \in AllPhases : started[s][ph] <= 1
    /\ \A j \in 1..Len(constructed) : \A i \in 1..(j - 1) :
          completed[constructed[i]] = AllPhases
    /\ \A s \in Stacks : started[s]["export"] > 0 => "export" \in completed[s]
    /\ status = "done" =>
          /\ Len(constructed) = 10
          /\ \A s \in Stacks : \A ph \in AllPhases : started[s][ph] = 1

\* C17 witness: the run is done and the last stack has exported.
AllPhasesDone ==
    /\ status = "done"
    /\ started["environment"]["export"] = 1
    /\ exports["environment"] # {}

RedisCalled == call # NoCall /\ call.cls = "BeanstalkStack"

Digits == {"0", "1", "2", "3", "4", "5", "6", "7", "8", "9"}

\* SharedCacheDatabaseSettings declares the network and its value is True.
SharedFor(n) ==
    /\ n.s \in DeclaredKeys("SharedCacheDatabaseSettings")
    /\ SettingsClasses["SharedCacheDatabaseSettings"][n.s] = PyBool(TRUE)

\* What _get_redis_db gives for network n and environment e. With undeclared
\* set, a network the settings table does not declare is told apart: the id is
\* '0' when the name is a method of the settings class, KeyError otherwise.
RedisDbExpected(n, e, r, undeclared) ==
    IF ~Truthy(n) \/ ~Truthy(e) THEN r.raised = "AttributeError"
    ELSE IF SharedFor(n) THEN r = [raised |-> "", value |-> PyStr("0")]
    ELSE IF undeclared /\ n.s \in {"get", "cycle", "length"}
         THEN r = [raised |-> "", value |-> PyStr("0")]
    ELSE IF undeclared /\ n.s \notin DeclaredKeys("SharedCacheDatabaseSettings")
         THEN r.raised = "KeyError"
         ELSE /\ r.raised = ""
              /\ r.value.type = "str"
              /\ r.value.s \in Digits
              /\ r.value.s = IntStr(Sha256Mod8(e.s) % 10)

RedisDbIsolation ==
    (/\ RedisCalled
     /\ Truthy(call.network)
     /\ call.network.s \in DeclaredKeys("SharedCacheDatabaseSettings")
     /\ ~SharedFor(call.network)
     /\ Truthy(call.environments[1]) /\ Truthy(call.environments[2])
     /\ call.environments[1] # call.environments[2])
    => call.results[1] # call.results[2]

CastCalled == call # NoCall /\ call.name = "_cast_to_string"

\* The value contains something that is neither dict, list, str, bool nor int.
RECURSIVE HasOtherType(_)
HasOtherType(v) ==
    IF v.type \in {"dict", "list"}
    THEN \E i \in 1..Len(v.items) :
            HasOtherType(IF v.type = "dict" THEN v.items[i][2] ELSE v.items[i])
    ELSE v.type \notin {"str", "bool", "int"}

\* The integer a decimal text denotes.
RECURSIVE DecimalValue(_)
DecimalValue(chars) ==
    IF chars = <<>> THEN 0
    ELSE 10 * DecimalValue(SubSeq(chars, 1, Len(chars) - 1))
         + (CHOOSE d \in 0..9 : IntStr(d) = chars[Len(chars)])

IsDecimalText(chars, n) ==
    LET digits == IF n < 0 THEN Tail(chars) ELSE chars
    IN  /\ n < 0 => (chars # <<>> /\ Head(chars) = "-")
        /\ digits # <<>>
        /\ \A i \in 1..Len(digits) : \E d \in 0..9 : IntStr(d) = digits[i]
        /\ Len(digits) > 1 => digits[1] # "0"
        /\ DecimalValue(digits) = (IF n < 0 THEN 0 - n ELSE n)

\* r is v with every leaf turned into a string and keys and nesting kept.
RECURSIVE CastOf(_, _)
CastOf(v, r) ==
    CASE v.type = "dict" ->
           /\ r.type = "dict"
           /\ Len(r.items) = Len(v.items)
           /\ \A i \in 1..Len(v.items) :
                 /\ r.items[i][1] = v.items[i][1]
                 /\ CastOf(v.items[i][2], r.items[i][2])
      [] v.type = "list" ->
           /\ r.type = "str"
           /\ Len(r.chars) >= 2
           /\ r.chars[1] = "[" /\ r.chars[Len(r.chars)] = "]"
           /\ v.items = <<>> => r.chars = <<"[", "]">>
           /\ v.items = <<OptBool(TRUE), OptStr(<<"\"">>)>> =>
                 r.chars = <<"[", "\"", "t", "r", "u", "e", "\"", ",", " ",
                             "\"", "\\", "\"", "\"", "]">>
      [] v.type = "str" -> r = v
      [] v.type = "bool" ->
           r = OptStr(IF v = OptBool(TRUE) THEN <<"t", "r", "u", "e">>
                      ELSE <<"f", "a", "l", "s", "e">>)
      [] v.type = "int" -> r.type = "str" /\ IsDecimalText(r.chars, v.n)
      [] OTHER -> FALSE

\* C16: _cast_to_string raises TypeError exactly when the value holds something
\* that is not a dict, list, str, bool or int; otherwise the result keeps the
\* dict keys and nesting and every leaf is a string (a str unchanged, a bool as
\* 'true'/'false', an int as its decimal text, a list as one JSON array
\* string), and casting the result again returns the same result.
CastToStringContract ==
    CastCalled =>
        IF HasOtherType(call.value)
        THEN call.result.raised = "TypeError"
        ELSE /\ call.result.raised = ""
             /\ CastOf(call.value, call.result.value)
             /\ call.again = call.result

\* C16 witness: a dict holding a list and an int was cast; the list became one
\* JSON array string and the int its decimal text.
DictWithListCast ==
    /\ CastCalled
    /\ call.value = OptDict(<<<<(<<"k">>), OptList(<<OptBool(TRUE), OptStr(<<"\"">>)>>)>>,
                              <<(<<"a", "b">>), OptInt(42)>>>>)
    /\ call.result.raised = ""
    /\ call.result.value.items[2] = <<(<<"a", "b">>), OptStr(<<"4", "2">>)>>
    /\ call.again = call.result

=============================================================================
